---- MODULE Spec2Model ----
(***************************************************************************)
(* Scene DSL pipeline of blenderGen: validateDSL (types/dsl.ts),           *)
(* DSLParser (dslParser.ts) and SceneGenerator (sceneGenerator.ts).        *)
(*                                                                         *)
(* JavaScript values are tagged records.  A string is a sequence of atoms  *)
(* (an atom is an indivisible run of characters), so that text built by    *)
(* template literals is the concatenation of atom sequences.  A finite     *)
(* number is kept as an integer count of tenths (75 is 750, 0.5 is 5).     *)
(* An object is a function from its own property names to values.          *)
(***************************************************************************)
EXTENDS Integers, Sequences, FiniteSets, TLC

VARIABLES input, title, pc, valid, parsed, renorm, scene, html, serialized, reparsed

vars == <<input, title, pc, valid, parsed, renorm, scene, html, serialized, reparsed>>

(***************************************************************************)
(* Bounds of the model.                                                    *)
(***************************************************************************)
MaxObjects == 2
MaxLights == 2

(***************************************************************************)
(* JavaScript values.                                                      *)
(***************************************************************************)
Undef == [k |-> "undefined"]
Null == [k |-> "null"]
Bool(b) == [k |-> "boolean", b |-> b]
Num(n) == [k |-> "number", fin |-> TRUE, n |-> n]
Infinity == [k |-> "number", fin |-> FALSE, n |-> 0]
\* -0: a number that is zero in every use but is not the same value as 0.
NegativeZero == [k |-> "number", fin |-> TRUE, n |-> 0, negative |-> TRUE]
Str(s) == [k |-> "string", s |-> s]
Arr(a) == [k |-> "array", a |-> a]
Obj(f) == [k |-> "object", f |-> f]
NoProps == [key \in {} |-> Undef]

IsNullish(v) == v.k \in {"undefined", "null"}
IsArray(v) == v.k = "array"

\* ToBoolean: undefined, null, false, 0 and '' are falsy, everything else truthy.
Truthy(v) ==
  CASE v.k \in {"undefined", "null"} -> FALSE
    [] v.k = "boolean" -> v.b
    [] v.k = "number" -> (~v.fin) \/ v.n # 0
    [] v.k = "string" -> v.s # <<>>
    [] OTHER -> TRUE

\* typeof v
TypeOf(v) ==
  CASE v.k \in {"null", "array", "object"} -> "object"
    [] OTHER -> v.k

\* v.key for a v that is not nullish (reading a property of null/undefined
\* throws and is decided by the caller).  Only the named keys of the DSL are
\* read this way; primitives and arrays have none of them.
Get(v, key) == IF v.k = "object" /\ key \in DOMAIN v.f THEN v.f[key] ELSE Undef

Has(v, key) == v.k = "object" /\ key \in DOMAIN v.f

\* The own enumerable properties that {...v} copies, restricted to named
\* keys: null, undefined, numbers and booleans have none, and those of
\* strings and arrays are index-named.
Props(v) == IF v.k = "object" THEN v.f ELSE NoProps

\* { ...a, ...b } on property maps: the later spread wins.
Merge(a, b) ==
  [key \in (DOMAIN a) \cup (DOMAIN b) |-> IF key \in DOMAIN b THEN b[key] ELSE a[key]]

(***************************************************************************)
(* JSON text.  A text is either malformed or a tree of JSON syntax: number *)
(* literals (a decimal count of tenths, possibly with an exponent too      *)
(* large for a double, as in 1e999, or the literal -0), strings, arrays    *)
(* and objects, an object being a sequence of members <<name, text>> in    *)
(* written order.                                                          *)
(***************************************************************************)
TNull == [k |-> "t_null"]
TBool(b) == [k |-> "t_bool", b |-> b]
TNum(n) == [k |-> "t_num", n |-> n, huge |-> FALSE]
THuge(n) == [k |-> "t_num", n |-> n, huge |-> TRUE]
TMinusZero == [k |-> "t_minus_zero"]
TStr(s) == [k |-> "t_str", s |-> s]
TArr(a) == [k |-> "t_arr", a |-> a]
TObj(m) == [k |-> "t_obj", m |-> m]

Malformed == [wf |-> FALSE, tree |-> TNull]
WellFormed(t) == [wf |-> TRUE, tree |-> t]

RECURSIVE JSONparseTree(_)
\* JSON.parse on a well-formed text: a literal out of the double range is
\* Infinity; of members with the same name the last one wins.
JSONparseTree(t) ==
  CASE t.k = "t_null" -> Null
    [] t.k = "t_bool" -> Bool(t.b)
    [] t.k = "t_num" -> IF t.huge /\ t.n # 0 THEN Infinity ELSE Num(t.n)
    [] t.k = "t_minus_zero" -> NegativeZero
    [] t.k = "t_str" -> Str(t.s)
    [] t.k = "t_arr" -> Arr([i \in 1..Len(t.a) |-> JSONparseTree(t.a[i])])
    [] t.k = "t_obj" ->
         Obj([key \in {t.m[i][1] : i \in 1..Len(t.m)} |->
                LET last == CHOOSE i \in 1..Len(t.m) :
                              /\ t.m[i][1] = key
                              /\ \A j \in 1..Len(t.m) : t.m[j][1] = key => j <= i
                IN JSONparseTree(t.m[last][2])])

RECURSIVE SetToSeq(_)
SetToSeq(S) ==
  IF S = {} THEN <<>>
  ELSE LET x == CHOOSE y \in S : TRUE IN <<x>> \o SetToSeq(S \ {x})

RECURSIVE JSONstringifyTree(_)
\* JSON.stringify on a value: a number that is not finite is written null
\* and -0 is written 0; every own property becomes one member.  (Whitespace
\* is not modelled.)
JSONstringifyTree(v) ==
  CASE v.k = "null" -> TNull
    [] v.k = "boolean" -> TBool(v.b)
    [] v.k = "number" -> IF v.fin THEN TNum(v.n) ELSE TNull
    [] v.k = "string" -> TStr(v.s)
    [] v.k = "array" -> TArr([i \in 1..Len(v.a) |-> JSONstringifyTree(v.a[i])])
    [] v.k = "object" ->
         LET keys == SetToSeq(DOMAIN v.f)
         IN TObj([i \in 1..Len(keys) |-> <<keys[i], JSONstringifyTree(v.f[keys[i]])>>])

(***************************************************************************)
(* Outcomes of a call: a returned value, or the error thrown.              *)
(***************************************************************************)
None == [st |-> "none", v |-> Undef]
Ok(v) == [st |-> "ok", v |-> v]
Throw(e) == [st |-> e, v |-> Undef]

\* JSON.parse(dslString): throws SyntaxError on malformed text.
JSONparse(text) == IF text.wf THEN Ok(JSONparseTree(text.tree)) ELSE Throw("SyntaxError")

(***************************************************************************)
(* types/dsl.ts                                                            *)
(***************************************************************************)
\* validateDSL without the check of camera.lookAt.
validateDSL_NoLookAt(dsl) ==
  IF ~Truthy(dsl) \/ TypeOf(dsl) # "object" THEN FALSE
  ELSE LET camera == Get(dsl, "camera") IN
    IF ~Truthy(camera) THEN FALSE
    ELSE IF ~IsArray(Get(camera, "position")) THEN FALSE
    ELSE IF ~IsArray(Get(dsl, "lights")) THEN FALSE
    ELSE IF ~IsArray(Get(dsl, "objects")) THEN FALSE
    ELSE TRUE

validateDSL(dsl) ==
  IF ~Truthy(dsl) \/ TypeOf(dsl) # "object" THEN FALSE
  ELSE LET camera == Get(dsl, "camera") IN
    IF ~Truthy(camera) THEN FALSE
    ELSE IF ~IsArray(Get(camera, "position")) \/ ~IsArray(Get(camera, "lookAt")) THEN FALSE
    ELSE IF ~IsArray(Get(dsl, "lights")) THEN FALSE
    ELSE IF ~IsArray(Get(dsl, "objects")) THEN FALSE
    ELSE TRUE

(***************************************************************************)
(* dslParser.ts                                                            *)
(***************************************************************************)
DefaultFov == Num(750)
DefaultBackground == Str(<<"#000000">>)
DefaultRotation == Arr(<<Num(0), Num(0), Num(0)>>)
DefaultScale == Arr(<<Num(10), Num(10), Num(10)>>)
MaterialDefaults ==
  [type |-> Str(<<"standard">>), metalness |-> Num(5), roughness |-> Num(5),
   wireframe |-> Bool(FALSE)]

\* normalizeObject with the defaults spread after the explicit fields.
normalizeObject_DefaultsLast(obj) ==
  Obj(Merge(Merge(Props(obj), [rotation |-> DefaultRotation, scale |-> DefaultScale]),
            [material |-> Obj(Merge(Props(Get(obj, "material")), MaterialDefaults))]))

\* normalizeObject with the material built from ...obj in place of
\* ...obj.material.
normalizeObject_SpreadsObject(obj) ==
  Obj(Merge(Merge([rotation |-> DefaultRotation, scale |-> DefaultScale], Props(obj)),
            [material |-> Obj(Merge(MaterialDefaults, Props(obj)))]))

\* obj => ({ rotation, scale, ...obj, material: { defaults, ...obj.material } });
\* called only for an obj that is not nullish.
normalizeObject(obj) ==
  Obj(Merge(Merge([rotation |-> DefaultRotation, scale |-> DefaultScale], Props(obj)),
            [material |-> Obj(Merge(MaterialDefaults, Props(Get(obj, "material"))))]))

\* normalizeDSL that also gives every light without a position the position
\* [0, 10, 0].
normalizeDSL_DefaultsLights(dsl) ==
  LET objects == Get(dsl, "objects").a
      lights == Get(dsl, "lights").a
      background == Get(dsl, "background")
  IN IF \E i \in 1..Len(objects) : IsNullish(objects[i]) THEN Throw("TypeError")
     ELSE Ok(Obj(Merge(Props(dsl),
           [camera |-> Obj(Merge([fov |-> DefaultFov], Props(Get(dsl, "camera")))),
            background |-> IF Truthy(background) THEN background ELSE DefaultBackground,
            lights |-> Arr([i \in 1..Len(lights) |->
                         IF lights[i].k = "object"
                           THEN Obj(Merge([position |-> Arr(<<Num(0), Num(100), Num(0)>>)],
                                          lights[i].f))
                           ELSE lights[i]]),
            objects |-> Arr([i \in 1..Len(objects) |-> normalizeObject(objects[i])])])))

\* normalizeDSL(dsl), for a dsl that validateDSL accepted.  obj.material
\* throws a TypeError when an element of objects is null.
normalizeDSL(dsl) ==
  LET objects == Get(dsl, "objects").a
      background == Get(dsl, "background")
  IN IF \E i \in 1..Len(objects) : IsNullish(objects[i]) THEN Throw("TypeError")
     ELSE Ok(Obj(Merge(Props(dsl),
           [camera |-> Obj(Merge([fov |-> DefaultFov], Props(Get(dsl, "camera")))),
            background |-> IF Truthy(background) THEN background ELSE DefaultBackground,
            objects |-> Arr([i \in 1..Len(objects) |-> normalizeObject(objects[i])])])))

\* DSLParser.parse(dslString): a SyntaxError is rethrown as the parsing
\* error, anything else thrown inside the try block is rethrown as it is.
parse(text) ==
  LET p == JSONparse(text) IN
    IF p.st = "SyntaxError" THEN Throw("DSL parsing error")
    ELSE IF ~validateDSL(p.v) THEN Throw("Invalid DSL structure")
    ELSE normalizeDSL(p.v)

\* stringify that writes only camera, lights and objects of the description.
stringify_ThreeKeys(dsl) ==
  WellFormed(JSONstringifyTree(
    Obj([key \in (DOMAIN dsl.f) \cap {"camera", "lights", "objects"} |-> dsl.f[key]])))

\* DSLParser.stringify(dsl)
stringify(dsl) == WellFormed(JSONstringifyTree(dsl))

(***************************************************************************)
(* Text produced by template literals.                                     *)
(***************************************************************************)
\* Number.prototype.toString of a finite number held as x / scale, scale
\* being 10 or 100: the shortest decimal, without trailing zeros.
DecStr(x, scale) ==
  LET a == IF x < 0 THEN -x ELSE x
      whole == a \div scale
      frac == a % scale
      digits == IF frac = 0 THEN ""
                ELSE IF scale = 10 THEN "." \o ToString(frac)
                ELSE IF frac % 10 = 0 THEN "." \o ToString(frac \div 10)
                ELSE IF frac < 10 THEN ".0" \o ToString(frac)
                ELSE "." \o ToString(frac)
  IN (IF x < 0 THEN "-" ELSE "") \o ToString(whole) \o digits

RECURSIVE ToStr(_)
RECURSIVE Join(_, _)
\* String(v), as `${v}` applies it.
ToStr(v) ==
  CASE v.k = "undefined" -> <<"undefined">>
    [] v.k = "null" -> <<"null">>
    [] v.k = "boolean" -> IF v.b THEN <<"true">> ELSE <<"false">>
    [] v.k = "number" -> IF v.fin THEN <<DecStr(v.n, 10)>> ELSE <<"Infinity">>
    [] v.k = "string" -> v.s
    [] v.k = "array" -> Join(v.a, <<",">>)
    [] v.k = "object" -> <<"[object Object]">>

\* Array.prototype.join: null and undefined elements give the empty string.
Join(a, sep) ==
  IF a = <<>> THEN <<>>
  ELSE LET one(e) == IF IsNullish(e) THEN <<>> ELSE ToStr(e)
       IN IF Len(a) = 1 THEN one(a[1])
          ELSE one(a[1]) \o sep \o Join(Tail(a), sep)

\* a || b
OrElse(a, b) == IF Truthy(a) THEN a ELSE b

OkText(t) == [st |-> "ok", v |-> t]
ThrowText(e) == [st |-> e, v |-> <<>>]
NoText == [st |-> "none", v |-> <<>>]

(***************************************************************************)
(* sceneGenerator.ts                                                       *)
(***************************************************************************)
generateImports ==
  <<"import * as THREE from 'three';\n",
    "import { OrbitControls } from 'three/examples/jsm/controls/OrbitControls.js';">>

generateSceneSetup(dsl) ==
  <<"// Create scene\n", "const scene = new THREE.Scene();\n",
    "scene.background = new THREE.Color('">>
  \o ToStr(OrElse(Get(dsl, "background"), Str(<<"#000000">>)))
  \o <<"');">>

\* const { position, lookAt, fov = 75 } = dsl.camera: the default applies
\* when fov is undefined.  position and lookAt are arrays (validateDSL).
generateCamera(dsl) ==
  LET camera == Get(dsl, "camera")
      fov == IF Get(camera, "fov") = Undef THEN Num(750) ELSE Get(camera, "fov")
  IN <<"// Create camera\n", "const camera = new THREE.PerspectiveCamera(\n  ">>
     \o ToStr(fov)
     \o <<",\n  window.innerWidth / window.innerHeight,\n  0.1,\n  1000\n);\n",
          "camera.position.set(">>
     \o Join(Get(camera, "position").a, <<", ">>)
     \o <<");\n", "camera.lookAt(">>
     \o Join(Get(camera, "lookAt").a, <<", ">>)
     \o <<");">>

DirectionalFallback == Arr(<<Num(50), Num(100), Num(75)>>)
PointFallback == Arr(<<Num(0), Num(50), Num(0)>>)
SpotFallback == Arr(<<Num(0), Num(100), Num(0)>>)

\* positionedLight that always sets the fallback position.
positionedLight_FallbackOnly(light, varName, ctor, fallback) ==
  OkText(<<"const ">> \o varName \o <<" = new THREE.", ctor, "('">>
         \o ToStr(Get(light, "color")) \o <<"', ">>
         \o ToStr(Get(light, "intensity")) \o <<");\n">>
         \o varName \o <<".position.set(">> \o Join(fallback.a, <<", ">>) \o <<");\n">>
         \o <<"scene.add(">> \o varName \o <<");">>)

\* The three positioned cases of generateLight: light.position || fallback,
\* then .join on it, which throws a TypeError on anything but an array.
positionedLight(light, varName, ctor, fallback) ==
  LET pos == OrElse(Get(light, "position"), fallback)
  IN IF ~IsArray(pos) THEN ThrowText("TypeError")
     ELSE OkText(<<"const ">> \o varName \o <<" = new THREE.", ctor, "('">>
                 \o ToStr(Get(light, "color")) \o <<"', ">>
                 \o ToStr(Get(light, "intensity")) \o <<");\n">>
                 \o varName \o <<".position.set(">> \o Join(pos.a, <<", ">>) \o <<");\n">>
                 \o <<"scene.add(">> \o varName \o <<");">>)

\* generateLight(light, index); light.type throws on a null light.
generateLight(light, index) ==
  IF IsNullish(light) THEN ThrowText("TypeError")
  ELSE LET type == Get(light, "type")
           varName == ToStr(type) \o <<"Light", ToString(index)>>
       IN CASE type = Str(<<"ambient">>) ->
                 OkText(<<"const ">> \o varName \o <<" = new THREE.", "AmbientLight", "('">>
                        \o ToStr(Get(light, "color")) \o <<"', ">>
                        \o ToStr(Get(light, "intensity")) \o <<");\n">>
                        \o <<"scene.add(">> \o varName \o <<");">>)
            [] type = Str(<<"directional">>) ->
                 positionedLight(light, varName, "DirectionalLight", DirectionalFallback)
            [] type = Str(<<"point">>) ->
                 positionedLight(light, varName, "PointLight", PointFallback)
            [] type = Str(<<"spot">>) ->
                 positionedLight(light, varName, "SpotLight", SpotFallback)
            [] OTHER -> OkText(<<>>)

\* blocks.join('\n\n') over the outcomes of a map; the first element that
\* throws ends the map.
JoinBlocks(outs) ==
  LET RECURSIVE go(_)
      go(i) == IF i > Len(outs) THEN <<>>
               ELSE IF i = Len(outs) THEN outs[i].v
               ELSE outs[i].v \o <<"\n\n">> \o go(i + 1)
  IN IF \E i \in 1..Len(outs) : outs[i].st # "ok"
       THEN ThrowText((outs[CHOOSE i \in 1..Len(outs) :
                              /\ outs[i].st # "ok"
                              /\ \A j \in 1..(i - 1) : outs[j].st = "ok"]).st)
       ELSE OkText(go(1))

\* generateLights that numbers the lights that generated a block, not the
\* positions of the input.
generateLights_CountsEmitted(dsl) ==
  LET lights == Get(dsl, "lights").a
      emittedBefore(i) ==
        Cardinality({j \in 1..(i - 1) : generateLight(lights[j], 0).v # <<>>})
      code == JoinBlocks([i \in 1..Len(lights) |-> generateLight(lights[i], emittedBefore(i))])
  IN IF code.st # "ok" THEN code ELSE OkText(<<"// Add lights\n">> \o code.v)

generateLights(dsl) ==
  LET lights == Get(dsl, "lights").a
      code == JoinBlocks([i \in 1..Len(lights) |-> generateLight(lights[i], i - 1)])
  IN IF code.st # "ok" THEN code ELSE OkText(<<"// Add lights\n">> \o code.v)

\* torusR * 0.4 as text, for a number held in tenths: the product in
\* hundredths, as decimal arithmetic gives it (the rounding of the binary
\* product is not modelled).  Operands that are not numbers multiply to
\* NaN, except true, which counts as 1.
TimesPointFour(r) ==
  CASE r.k = "number" /\ r.fin -> <<DecStr(4 * r.n, 100)>>
    [] r.k = "number" /\ ~r.fin -> <<"Infinity">>
    [] r.k = "boolean" -> <<"0.4">>
    [] OTHER -> <<"NaN">>

\* generateGeometry(obj), obj not nullish: every parameter is  obj.p || default.
generateGeometry(obj) ==
  LET type == Get(obj, "type")
      p(key, default) == ToStr(OrElse(Get(obj, key), Num(default)))
  IN CASE type = Str(<<"cube">>) ->
            <<"new THREE.", "BoxGeometry", "(">> \o p("width", 10) \o <<", ">>
            \o p("height", 10) \o <<", ">> \o p("depth", 10) \o <<")">>
       [] type = Str(<<"sphere">>) ->
            <<"new THREE.", "SphereGeometry", "(">> \o p("radius", 10) \o <<", ">>
            \o p("segments", 320) \o <<", ">> \o p("segments", 320) \o <<")">>
       [] type = Str(<<"plane">>) ->
            <<"new THREE.", "PlaneGeometry", "(">> \o p("width", 100) \o <<", ">>
            \o p("height", 100) \o <<")">>
       [] type = Str(<<"cylinder">>) ->
            <<"new THREE.", "CylinderGeometry", "(">> \o p("radius", 10) \o <<", ">>
            \o p("radius", 10) \o <<", ">> \o p("height", 20) \o <<", 32)">>
       [] type = Str(<<"cone">>) ->
            <<"new THREE.", "ConeGeometry", "(">> \o p("radius", 10) \o <<", ">>
            \o p("height", 20) \o <<", 32)">>
       [] type = Str(<<"torus">>) ->
            <<"new THREE.", "TorusGeometry", "(">> \o p("radius", 10) \o <<", ">>
            \o TimesPointFour(OrElse(Get(obj, "radius"), Num(10))) \o <<", 16, 100)">>
       [] OTHER -> <<"new THREE.", "BoxGeometry", "(">> \o <<"1">> \o <<", ">>
            \o <<"1">> \o <<", ">> \o <<"1">> \o <<")">>

\* generateMaterial with wireframe pushed when !== undefined, as the other
\* two fields are.
generateMaterial_WireframeDefined(obj) ==
  LET material == Get(obj, "material")
      type == Get(material, "type")
      params ==
        <<"color: '">> \o ToStr(Get(material, "color")) \o <<"'">>
        \o (IF Get(material, "metalness") # Undef
            THEN <<", ", "metalness: ">> \o ToStr(Get(material, "metalness")) ELSE <<>>)
        \o (IF Get(material, "roughness") # Undef
            THEN <<", ", "roughness: ">> \o ToStr(Get(material, "roughness")) ELSE <<>>)
        \o (IF Get(material, "wireframe") # Undef
            THEN <<", ", "wireframe: ">> \o ToStr(Get(material, "wireframe")) ELSE <<>>)
      ctor == CASE type = Str(<<"basic">>) -> "MeshBasicMaterial"
                [] type = Str(<<"standard">>) -> "MeshStandardMaterial"
                [] type = Str(<<"phong">>) -> "MeshPhongMaterial"
                [] type = Str(<<"lambert">>) -> "MeshLambertMaterial"
                [] OTHER -> "MeshStandardMaterial"
  IN <<"new THREE.", ctor, "({ ">> \o params \o <<" })">>

\* generateMaterial(obj) for an obj whose material is not nullish:
\* metalness and roughness are pushed when !== undefined, wireframe when truthy.
generateMaterial(obj) ==
  LET material == Get(obj, "material")
      type == Get(material, "type")
      params ==
        <<"color: '">> \o ToStr(Get(material, "color")) \o <<"'">>
        \o (IF Get(material, "metalness") # Undef
            THEN <<", ", "metalness: ">> \o ToStr(Get(material, "metalness")) ELSE <<>>)
        \o (IF Get(material, "roughness") # Undef
            THEN <<", ", "roughness: ">> \o ToStr(Get(material, "roughness")) ELSE <<>>)
        \o (IF Truthy(Get(material, "wireframe"))
            THEN <<", ", "wireframe: ">> \o ToStr(Get(material, "wireframe")) ELSE <<>>)
      ctor == CASE type = Str(<<"basic">>) -> "MeshBasicMaterial"
                [] type = Str(<<"standard">>) -> "MeshStandardMaterial"
                [] type = Str(<<"phong">>) -> "MeshPhongMaterial"
                [] type = Str(<<"lambert">>) -> "MeshLambertMaterial"
                [] OTHER -> "MeshStandardMaterial"
  IN <<"new THREE.", ctor, "({ ">> \o params \o <<" })">>

\* generateObject(obj, index).  obj.type throws on a null obj, material.color
\* on a missing material, and .join on a position, rotation or scale that is
\* not an array.
generateObject(obj, index) ==
  IF IsNullish(obj) THEN ThrowText("TypeError")
  ELSE IF IsNullish(Get(obj, "material")) THEN ThrowText("TypeError")
  ELSE LET idx == ToString(index)
           rotation == OrElse(Get(obj, "rotation"), Arr(<<Num(0), Num(0), Num(0)>>))
           scale == OrElse(Get(obj, "scale"), Arr(<<Num(10), Num(10), Num(10)>>))
           position == Get(obj, "position")
       IN IF ~IsArray(position) \/ ~IsArray(rotation) \/ ~IsArray(scale)
            THEN ThrowText("TypeError")
          ELSE OkText(
            <<"const geometry", idx, " = ">> \o generateGeometry(obj) \o <<";\n">>
            \o <<"const material", idx, " = ">> \o generateMaterial(obj) \o <<";\n">>
            \o <<"const mesh", idx, " = new THREE.Mesh(geometry", idx, ", material", idx, ");\n">>
            \o <<"mesh", idx, ".position.set(">> \o Join(position.a, <<", ">>) \o <<");\n">>
            \o <<"mesh", idx, ".rotation.set(">> \o Join(rotation.a, <<", ">>) \o <<");\n">>
            \o <<"mesh", idx, ".scale.set(">> \o Join(scale.a, <<", ">>) \o <<");\n">>
            \o <<"scene.add(mesh", idx, ");">>)

generateObjects(dsl) ==
  LET objects == Get(dsl, "objects").a
      code == JoinBlocks([i \in 1..Len(objects) |-> generateObject(objects[i], i - 1)])
  IN IF code.st # "ok" THEN code ELSE OkText(<<"// Add objects\n">> \o code.v)

generateRenderer ==
  <<"// Create renderer\n",
    "const renderer = new THREE.WebGLRenderer({ antialias: true });\n",
    "renderer.setSize(window.innerWidth, window.innerHeight);\n",
    "renderer.setPixelRatio(window.devicePixelRatio);\n",
    "document.body.appendChild(renderer.domElement);\n\n",
    "// Add orbit controls\n",
    "const controls = new OrbitControls(camera, renderer.domElement);\n",
    "controls.enableDamping = true;\n",
    "controls.dampingFactor = 0.05;\n\n",
    "// Handle window resize\n",
    "window.addEventListener('resize', () => {...});">>

generateAnimateFunction ==
  <<"// Animation loop\n", "function animate() {...}\n\n", "animate();">>

\* generateScene(dsl) for a dsl that validateDSL accepts: the sub-generators
\* run in this order, and the first one that throws ends the call.
generateScene(dsl) ==
  LET lights == generateLights(dsl)
      objects == generateObjects(dsl)
  IN IF lights.st # "ok" THEN lights
     ELSE IF objects.st # "ok" THEN objects
     ELSE OkText(generateImports \o <<"\n\n">> \o generateSceneSetup(dsl) \o <<"\n\n">>
                 \o generateCamera(dsl) \o <<"\n\n">> \o lights.v \o <<"\n\n">>
                 \o objects.v \o <<"\n\n">> \o generateRenderer \o <<"\n\n">>
                 \o generateAnimateFunction)

\* generateHTML(dsl, title): the title is substituted twice, the scene code once.
generateHTML(dsl, t) ==
  LET sceneCode == generateScene(dsl)
  IN IF sceneCode.st # "ok" THEN sceneCode
     ELSE OkText(
       <<"<!DOCTYPE html>\n<html lang=\"en\">\n<head>\n  <meta charset=\"UTF-8\">\n",
         "  <meta name=\"viewport\" content=\"width=device-width, initial-scale=1.0\">\n  ",
         "<title>">> \o t \o <<"</title>", "\n  ",
         "<style>", "\n    body {...}\n    #info {...}\n  ", "</style>",
         "\n</head>\n<body>\n  <div id=\"info\">\n    <strong>">> \o t
       \o <<"</strong><br>\n    Left click + drag to rotate<br>\n    Right click + drag to pan<br>\n    Scroll to zoom\n  </div>\n  \n  ",
            "<script type=\"importmap\">",
            "\n    {\n      \"imports\": {...}\n    }\n  ",
            "</script>", "\n  \n  ",
            "<script type=\"module\">", "\n">> \o sceneCode.v
       \o <<"\n  ", "</script>", "\n</body>\n</html>">>)

(***************************************************************************)
(* The texts handed to the pipeline.                                       *)
(***************************************************************************)
TS(s) == TStr(<<s>>)
TVec(x, y, z) == TArr(<<TNum(x), TNum(y), TNum(z)>>)

CameraA == TObj(<< <<"position", TVec(0, 50, 100)>>, <<"lookAt", TVec(0, 0, 0)>> >>)
CameraB == TObj(<< <<"position", TVec(0, 50, 100)>>, <<"lookAt", TVec(0, 0, 0)>>,
                   <<"fov", TNum(600)>> >>)
CameraC == TObj(<< <<"position", TArr(<<>>)>>, <<"lookAt", TArr(<<TNum(10)>>)>>,
                   <<"fov", TNull>> >>)
CameraD == TObj(<< <<"position", TVec(0, 50, 100)>>, <<"lookAt", TVec(0, 0, 0)>>,
                   <<"fov", THuge(10)>> >>)
CameraTexts == {CameraA, CameraB, CameraC, CameraD}

\* The members written for background: none, a colour, the empty string,
\* a string holding a closing script tag, an out-of-range number.
BackgroundMembers ==
  { <<>>,
    << <<"background", TS("#ff0000")>> >>,
    << <<"background", TStr(<<>>)>> >>,
    << <<"background", TStr(<<"</script>", "<script>">>)>> >>,
    << <<"background", THuge(10)>> >> }

LightMembers(type, color, intensity) ==
  << <<"type", TS(type)>>, <<"color", TS(color)>>, <<"intensity", intensity>> >>

LightTexts ==
  { TObj(LightMembers("ambient", "#ffffff", TNum(5))),
    TObj(LightMembers("ambient", "#ffffff", TNum(5)) \o << <<"position", TVec(10, 20, 30)>> >>),
    TObj(LightMembers("directional", "#ffffff", TNum(8))),
    TObj(LightMembers("directional", "#ffffff", TNum(8)) \o << <<"position", TVec(10, 20, 30)>> >>),
    TObj(LightMembers("point", "#ff8800", TNum(10))),
    TObj(LightMembers("point", "#ff8800", THuge(10)) \o << <<"position", TArr(<<>>)>> >>),
    TObj(LightMembers("spot", "#ffffff", TNum(10))),
    TObj(LightMembers("spot", "#ffffff", TNum(10)) \o << <<"position", TVec(-10, 75, 0)>> >>),
    TObj(LightMembers("laser", "#ffffff", TNum(10)) \o << <<"position", TVec(10, 20, 30)>> >>),
    TObj(LightMembers("point", "#ffffff", TNum(10)) \o << <<"position", TNum(50)>> >>),
    TObj(LightMembers("directional", "#ffffff", TNum(10)) \o << <<"position", TNull>> >>),
    TNum(50),
    TNull }

Material(type, more) == TObj(<< <<"type", TS(type)>>, <<"color", TS("#ff0000")>> >> \o more)

CubeText ==
  TObj(<< <<"type", TS("cube")>>, <<"position", TVec(0, 0, 0)>>,
          <<"material", Material("basic", <<>>)>> >>)
SphereText ==
  TObj(<< <<"type", TS("sphere")>>, <<"position", TVec(20, 10, 0)>>,
          <<"rotation", TVec(0, 15, 0)>>, <<"scale", TVec(20, 20, 20)>>,
          <<"radius", TNum(20)>>,
          <<"material", Material("standard", << <<"metalness", TNum(10)>>,
                                  <<"roughness", TNum(2)>>, <<"wireframe", TBool(TRUE)>> >>)>> >>)

ObjectTexts ==
  { CubeText,
    SphereText,
    TObj(<< <<"type", TS("blob")>>,
            <<"position", TArr(<<TMinusZero, TNum(0), TNum(0)>>)>> >>),
    TObj(<< <<"type", TS("torus")>>, <<"position", TVec(0, 0, 0)>>, <<"radius", TNum(5)>>,
            <<"material", TObj(<< <<"color", TS("#00ff00")>>, <<"metalness", TNull>>,
                                  <<"wireframe", TBool(FALSE)>> >>)>> >>),
    TObj(<< <<"type", TS("plane")>>, <<"position", TVec(0, 0, 0)>>,
            <<"scale", TArr(<<THuge(10), TNum(10), TNum(10)>>)>>,
            <<"material", Material("lambert", << <<"roughness", TNum(0)>> >>)>> >>),
    TObj(<< <<"type", TS("cone")>>, <<"position", TVec(0, 0, 0)>>, <<"rotation", TNum(50)>>,
            <<"material", Material("phong", <<>>)>> >>),
    TObj(<<>>),
    TNum(50),
    TNull }

SeqsUpTo(S, n) == UNION {[1..m -> S] : m \in 0..n}

Root(camera, lights, objects, background) ==
  TObj(<< <<"camera", camera>>, <<"lights", TArr(lights)>>, <<"objects", TArr(objects)>> >>
       \o background)

AmbientText == TObj(LightMembers("ambient", "#ffffff", TNum(5)))
DirectionalText == TObj(LightMembers("directional", "#ffffff", TNum(8)))

\* The geometry parameters written for an object: none, each one as a
\* positive number (2, 3, 0.5, 0.5, 16), each one as 0.
GeometryParams ==
  { <<>>,
    << <<"width", TNum(20)>>, <<"height", TNum(30)>>, <<"depth", TNum(5)>>,
       <<"radius", TNum(5)>>, <<"segments", TNum(160)>> >>,
    << <<"width", TNum(0)>>, <<"height", TNum(0)>>, <<"depth", TNum(0)>>,
       <<"radius", TNum(0)>>, <<"segments", TNum(0)>> >> }

\* The object types, and one that is none of them.
GeometryTypes == {"cube", "sphere", "plane", "cylinder", "cone", "torus", "pyramid"}

GeometryTexts ==
  { TObj(<< <<"type", TS(type)>>, <<"position", TVec(0, 0, 0)>> >> \o params
         \o << <<"material", Material("standard", <<>>)>> >>) :
      type \in GeometryTypes, params \in GeometryParams }

\* Texts that differ from an accepted one by a missing or ill-typed part.
BrokenTrees ==
  LET L == <<"lights", TArr(<<AmbientText>>)>>
      O == <<"objects", TArr(<<CubeText>>)>>
      C == <<"camera", CameraA>>
      P == <<"position", TVec(0, 50, 100)>>
      A == <<"lookAt", TVec(0, 0, 0)>>
  IN { TNull, TNum(50), TBool(TRUE), TS("camera"), TArr(<<>>), TObj(<<>>),
       TObj(<<L, O>>), TObj(<<C, O>>), TObj(<<C, L>>),
       TObj(<< <<"camera", TNull>>, L, O >>),
       TObj(<< <<"camera", TNum(50)>>, L, O >>),
       TObj(<< <<"camera", TObj(<<A>>)>>, L, O >>),
       TObj(<< <<"camera", TObj(<<P>>)>>, L, O >>),
       TObj(<< <<"camera", TObj(<< <<"position", TNum(50)>>, A >>)>>, L, O >>),
       TObj(<< <<"camera", TObj(<< P, <<"lookAt", TObj(<<>>)>> >>)>>, L, O >>),
       TObj(<< C, <<"lights", TObj(<<>>)>>, O >>),
       TObj(<< C, L, <<"objects", TS("none")>> >>),
       TObj(<< C, L, O, <<"objects", TNull>> >>),
       TObj(<< <<"camera", TNull>>, C, L, <<"objects", TNull>>, O >>) }

Inputs ==
  {Malformed}
  \cup {WellFormed(t) : t \in BrokenTrees}
  \cup {WellFormed(Root(CameraA, l, o, <<>>)) :
          l \in SeqsUpTo(LightTexts, MaxLights),
          o \in {<<>>, <<CubeText, SphereText>>}}
  \cup {WellFormed(Root(CameraA, l, o, <<>>)) :
          l \in {<<>>, <<AmbientText, DirectionalText>>},
          o \in SeqsUpTo(ObjectTexts, MaxObjects)}
  \cup {WellFormed(Root(c, <<AmbientText>>, <<CubeText>>, b)) :
          c \in CameraTexts, b \in BackgroundMembers}
  \cup {WellFormed(Root(CameraA, <<AmbientText>>, <<g>>, <<>>)) : g \in GeometryTexts}

Titles ==
  { <<"AI Generated Scene">>,
    <<"<script>", "alert(1)", "</script>">>,
    <<"</title>", "<script>">> }

(***************************************************************************)
(* One run of a caller: validate a candidate, or parse a text and then     *)
(* use the description once.                                               *)
(***************************************************************************)
Init ==
  /\ input \in Inputs
  /\ title = <<>>
  /\ pc = "start"
  /\ valid = [st |-> "none", v |-> FALSE]
  /\ parsed = None
  /\ renorm = None
  /\ scene = NoText
  /\ html = NoText
  /\ serialized = Malformed
  /\ reparsed = None

\* validateDSL(JSON.parse(text))
Validate ==
  /\ pc = "start"
  /\ input.wf
  /\ valid' = [st |-> "ok", v |-> validateDSL(JSONparse(input).v)]
  /\ pc' = "validated"
  /\ UNCHANGED <<input, title, parsed, renorm, scene, html, serialized, reparsed>>

\* parser.parse(text)
Parse ==
  /\ pc = "start"
  /\ parsed' = parse(input)
  /\ pc' = IF parsed'.st = "ok" THEN "parsed" ELSE "failed"
  /\ UNCHANGED <<input, title, valid, renorm, scene, html, serialized, reparsed>>

\* normalizeDSL applied to a description that parse returned
Renormalize ==
  /\ pc = "parsed"
  /\ renorm' = normalizeDSL(parsed.v)
  /\ pc' = "renormalized"
  /\ UNCHANGED <<input, title, valid, parsed, scene, html, serialized, reparsed>>

\* generator.generateScene(dsl)
GenerateScene ==
  /\ pc = "parsed"
  /\ scene' = generateScene(parsed.v)
  /\ pc' = "generated"
  /\ UNCHANGED <<input, title, valid, parsed, renorm, html, serialized, reparsed>>

\* generator.generateHTML(dsl, title)
GenerateHTML ==
  /\ pc = "parsed"
  /\ \E t \in Titles :
       /\ title' = t
       /\ html' = generateHTML(parsed.v, t)
  /\ pc' = "assembled"
  /\ UNCHANGED <<input, valid, parsed, renorm, scene, serialized, reparsed>>

\* parser.stringify(dsl)
Stringify ==
  /\ pc = "parsed"
  /\ serialized' = stringify(parsed.v)
  /\ pc' = "serialized"
  /\ UNCHANGED <<input, title, valid, parsed, renorm, scene, html, reparsed>>

\* parser.parse(parser.stringify(dsl))
Reparse ==
  /\ pc = "serialized"
  /\ reparsed' = parse(serialized)
  /\ pc' = "reparsed"
  /\ UNCHANGED <<input, title, valid, parsed, renorm, scene, html, serialized>>

Next ==
  \/ Validate
  \/ Parse
  \/ Renormalize
  \/ GenerateScene
  \/ GenerateHTML
  \/ Stringify
  \/ Reparse

Spec == Init /\ [][Next]_vars

(***************************************************************************)
(* Reading generated text back.                                            *)
(***************************************************************************)
Positions(text, atom) == {q \in 1..Len(text) : text[q] = atom}
Count(text, atom) == Cardinality(Positions(text, atom))

\* The position of the n-th occurrence of atom (n from 1), 0 when there is none.
NthPos(text, atom, n) ==
  LET ps == Positions(text, atom)
  IN IF Cardinality(ps) < n THEN 0
     ELSE CHOOSE q \in ps : Cardinality({r \in ps : r < q}) = n - 1

\* The first position at or after from that holds atom, 0 when there is none.
NextPos(text, atom, from) ==
  LET ps == {q \in Positions(text, atom) : q >= from}
  IN IF ps = {} THEN 0 ELSE CHOOSE q \in ps : \A r \in ps : q <= r

\* Whether pattern occurs in text starting at position q.
OccursAt(text, pattern, q) ==
  /\ q >= 1
  /\ q + Len(pattern) - 1 <= Len(text)
  /\ SubSeq(text, q, q + Len(pattern) - 1) = pattern

\* The pieces of text between occurrences of the separator atom.
SplitOn(text, sep) ==
  LET cuts == Positions(text, sep)
      n == Cardinality(cuts)
      cut(i) == IF i = 0 THEN 0 ELSE IF i = n + 1 THEN Len(text) + 1 ELSE NthPos(text, sep, i)
  IN [i \in 1..(n + 1) |-> SubSeq(text, cut(i - 1) + 1, cut(i) - 1)]

\* The light blocks of a scene text: what lies between the lights header
\* and the blank line before the objects header, split at blank lines.
LightBlocksOf(text) ==
  LET from == NthPos(text, "// Add lights\n", 1)
      to == NthPos(text, "// Add objects\n", 1)
  IN SplitOn(SubSeq(text, from + 1, to - 2), "\n\n")

\* The statement of a scene text that declares material{i}: from the n-th
\* material declaration (n = i + 1) to the end of that statement.
MaterialStatement(text, n) ==
  LET from == NthPos(text, "const material", n)
  IN SubSeq(text, from, NextPos(text, ";\n", from))

\* The atoms that follow the first occurrence of a marker, up to (not
\* including) the next occurrence of stop.
After(text, marker, stop) ==
  LET from == NthPos(text, marker, 1)
  IN SubSeq(text, from + 1, NextPos(text, stop, from) - 1)

\* The script elements an HTML tokenizer finds in a document: a start tag
\* met as markup opens one, and only the next closing script tag ends it;
\* title and style content is text up to their own closing tags.
ScriptOpeners == {"<script type=\"importmap\">", "<script type=\"module\">", "<script>"}
TagAtoms == ScriptOpeners \cup {"</script>", "<title>", "</title>", "<style>", "</style>"}

\* The positions of doc that hold a tag, in increasing order.
TagPositions(doc) ==
  LET IsTagAt(q) == doc[q] \in TagAtoms
  IN SelectSeq([q \in 1..Len(doc) |-> q], IsTagAt)

RECURSIVE ScanScripts(_, _, _, _, _, _)
\* tags[j..] read in mode; from is where the script element being read began.
ScanScripts(doc, tags, j, mode, from, acc) ==
  IF j > Len(tags)
    THEN IF mode = "script"
           THEN Append(acc, [open |-> doc[from], body |-> SubSeq(doc, from + 1, Len(doc)),
                             closed |-> FALSE])
           ELSE acc
  ELSE LET q == tags[j]
           a == doc[q]
       IN CASE mode = "data" /\ a \in ScriptOpeners ->
                 ScanScripts(doc, tags, j + 1, "script", q, acc)
            [] mode = "data" /\ a = "<title>" -> ScanScripts(doc, tags, j + 1, "title", from, acc)
            [] mode = "data" /\ a = "<style>" -> ScanScripts(doc, tags, j + 1, "style", from, acc)
            [] mode = "title" /\ a = "</title>" -> ScanScripts(doc, tags, j + 1, "data", from, acc)
            [] mode = "style" /\ a = "</style>" -> ScanScripts(doc, tags, j + 1, "data", from, acc)
            [] mode = "script" /\ a = "</script>" ->
                 ScanScripts(doc, tags, j + 1, "data", from,
                             Append(acc, [open |-> doc[from],
                                          body |-> SubSeq(doc, from + 1, q - 1),
                                          closed |-> TRUE]))
            [] OTHER -> ScanScripts(doc, tags, j + 1, mode, from, acc)

ScriptBlocks(doc) == ScanScripts(doc, TagPositions(doc), 1, "data", 0, <<>>)

\* The value the input text denotes, and its parts.
Candidate == JSONparseTree(input.tree)
InputObjects == Get(Candidate, "objects").a
InputLights == Get(Candidate, "lights").a

(***************************************************************************)
(* C1.  Every call of DSLParser.parse ends in exactly one of three ways:   *)
(* the text is malformed and the parsing error is thrown; the text is      *)
(* well formed, validateDSL rejects its value and the structure error is   *)
(* thrown; or validateDSL accepts and the normalized description is        *)
(* returned.  No accepted text makes parse fail and no other error leaves  *)
(* parse.                                                                  *)
(***************************************************************************)
C1_ParseOutcomes ==
  parsed.st # "none" =>
    \/ ~input.wf /\ parsed.st = "DSL parsing error"
    \/ input.wf /\ ~validateDSL(Candidate) /\ parsed.st = "Invalid DSL structure"
    \/ input.wf /\ validateDSL(Candidate) /\ parsed.st = "ok"

(***************************************************************************)
(* C2.  For every description that parse returned, generateScene and       *)
(* generateHTML return text and raise no error, whatever the elements of   *)
(* lights and objects are and whichever of their fields are missing.       *)
(***************************************************************************)
C2_GeneratorTotal ==
  /\ scene.st # "none" => scene.st = "ok"
  /\ html.st # "none" => html.st = "ok"

(***************************************************************************)
(* C3.  validateDSL returns true exactly when the candidate is a non-null  *)
(* object with a camera that has array-typed position and lookAt, an       *)
(* array-typed lights and an array-typed objects, whatever those arrays    *)
(* hold; a candidate missing any of the five is rejected.                  *)
(***************************************************************************)
HasArray(v, key) == Has(v, key) /\ v.f[key].k = "array"

ShapeAccepted(c) ==
  /\ c.k = "object"
  /\ Has(c, "camera")
  /\ HasArray(c.f["camera"], "position")
  /\ HasArray(c.f["camera"], "lookAt")
  /\ HasArray(c, "lights")
  /\ HasArray(c, "objects")

C3_ValidateShape ==
  valid.st # "none" => valid.st = "ok" /\ valid.v = ShapeAccepted(Candidate)

\* An accepted candidate whose arrays hold ill-formed elements: a camera
\* position of no components, or a null among lights or objects.
C3_Witness ==
  /\ valid.st = "ok"
  /\ valid.v
  /\ \/ Null \in {InputObjects[i] : i \in 1..Len(InputObjects)}
     \/ Null \in {InputLights[i] : i \in 1..Len(InputLights)}
     \/ Get(Get(Candidate, "camera"), "position").a = <<>>

(***************************************************************************)
(* C4.  As claimed: in the output of parse followed by generateScene, an   *)
(* object's material constructor holds a metalness, roughness or wireframe *)
(* setting only if that field is explicitly present in that object's       *)
(* material in the input.                                                  *)
(***************************************************************************)
MaterialFieldAtom(field) ==
  CASE field = "metalness" -> "metalness: "
    [] field = "roughness" -> "roughness: "
    [] field = "wireframe" -> "wireframe: "

\* Whether the input writes the field in the material of its i-th object.
ExplicitInMaterial(i, field) == Has(Get(InputObjects[i], "material"), field)

Emitted(i, field) == Count(MaterialStatement(scene.v, i), MaterialFieldAtom(field)) > 0

\* The text that follows the field's name in the i-th material statement.
EmittedValue(i, field) ==
  LET stmt == MaterialStatement(scene.v, i)
      q == NthPos(stmt, MaterialFieldAtom(field), 1)
  IN <<stmt[q + 1]>>

C4_OnlyExplicitEmitted ==
  scene.st = "ok" =>
    \A i \in 1..Len(InputObjects) : \A field \in {"metalness", "roughness", "wireframe"} :
      Emitted(i, field) => ExplicitInMaterial(i, field)

(***************************************************************************)
(* C4, amended.  After parse, every object's material constructor holds a  *)
(* metalness and a roughness setting: the explicit value where the input   *)
(* material has the field, else the default 0.5 that normalization filled  *)
(* in.  It holds a wireframe setting exactly when the input material has   *)
(* an explicit wireframe that is truthy.                                   *)
(***************************************************************************)
C4_EmittedAfterNormalization ==
  scene.st = "ok" =>
    /\ Count(scene.v, "const material") = Len(InputObjects)
    /\ \A i \in 1..Len(InputObjects) :
         LET material == Get(InputObjects[i], "material") IN
         /\ \A field \in {"metalness", "roughness"} :
              /\ Count(MaterialStatement(scene.v, i), MaterialFieldAtom(field)) = 1
              /\ EmittedValue(i, field)
                   = ToStr(IF ExplicitInMaterial(i, field) THEN material.f[field] ELSE Num(5))
         /\ Emitted(i, "wireframe")
              <=> (ExplicitInMaterial(i, "wireframe") /\ Truthy(material.f["wireframe"]))

\* A scene with an object whose input material names neither metalness nor
\* wireframe, and whose constructor sets metalness all the same.
C4_Witness ==
  /\ scene.st = "ok"
  /\ \E i \in 1..Len(InputObjects) :
       /\ Has(InputObjects[i], "material")
       /\ ~ExplicitInMaterial(i, "metalness")
       /\ ~ExplicitInMaterial(i, "wireframe")
       /\ Emitted(i, "metalness")
       /\ ~Emitted(i, "wireframe")

(***************************************************************************)
(* C5.  In the description that parse returns the explicit value always    *)
(* wins over the default: camera.fov is the explicit fov, else 75;         *)
(* background is the explicit background unless absent or falsy, else      *)
(* '#000000'; every object has rotation (explicit, else [0,0,0]) and scale *)
(* (explicit, else [1,1,1]); every material has type (explicit, else       *)
(* 'standard'), metalness and roughness (explicit, else 0.5) and wireframe *)
(* (explicit, else false).  An explicit array replaces the default whole.  *)
(***************************************************************************)
ExplicitElse(v, key, default) == IF Has(v, key) THEN v.f[key] ELSE default

C5_DefaultsFilled ==
  parsed.st = "ok" =>
    LET out == parsed.v
        objects == Get(out, "objects")
    IN /\ Get(Get(out, "camera"), "fov")
            = ExplicitElse(Get(Candidate, "camera"), "fov", Num(750))
       /\ Get(out, "background")
            = (IF Has(Candidate, "background") /\ Truthy(Candidate.f["background"])
               THEN Candidate.f["background"] ELSE Str(<<"#000000">>))
       /\ objects.k = "array"
       /\ Len(objects.a) = Len(InputObjects)
       /\ \A i \in 1..Len(InputObjects) :
            LET in == InputObjects[i]
                material == Get(objects.a[i], "material")
            IN /\ Get(objects.a[i], "rotation")
                    = ExplicitElse(in, "rotation", Arr(<<Num(0), Num(0), Num(0)>>))
               /\ Get(objects.a[i], "scale")
                    = ExplicitElse(in, "scale", Arr(<<Num(10), Num(10), Num(10)>>))
               /\ Get(material, "type")
                    = ExplicitElse(Get(in, "material"), "type", Str(<<"standard">>))
               /\ Get(material, "metalness")
                    = ExplicitElse(Get(in, "material"), "metalness", Num(5))
               /\ Get(material, "roughness")
                    = ExplicitElse(Get(in, "material"), "roughness", Num(5))
               /\ Get(material, "wireframe")
                    = ExplicitElse(Get(in, "material"), "wireframe", Bool(FALSE))

\* A returned description with one object that kept its explicit scale and
\* rotation and another that was given the defaults.
C5_Witness ==
  /\ parsed.st = "ok"
  /\ \E i, j \in 1..Len(InputObjects) :
       /\ Has(InputObjects[i], "scale") /\ Has(InputObjects[i], "rotation")
       /\ Get(InputObjects[i], "scale") # Arr(<<Num(10), Num(10), Num(10)>>)
       /\ ~Has(InputObjects[j], "scale") /\ ~Has(InputObjects[j], "rotation")
       /\ Has(Get(InputObjects[i], "material"), "metalness")
       /\ ~Has(Get(InputObjects[j], "material"), "metalness")

(***************************************************************************)
(* C6.  Normalization is idempotent: normalizing a description that parse  *)
(* returned succeeds and yields a structurally equal description.          *)
(***************************************************************************)
C6_NormalizeIdempotent ==
  renorm.st # "none" => renorm.st = "ok" /\ renorm.v = parsed.v

\* A description renormalized whose objects had defaults filled in.
C6_Witness ==
  /\ renorm.st = "ok"
  /\ \E i \in 1..Len(InputObjects) :
       /\ ~Has(InputObjects[i], "rotation")
       /\ ~ExplicitInMaterial(i, "roughness")
  /\ ~Has(Candidate, "background")

RECURSIVE Writable(_)
\* Every number in v is one that JSON text can hold: not Infinity, not -0.
Writable(v) ==
  CASE v.k = "number" -> v.fin /\ v # NegativeZero
    [] v.k = "array" -> \A i \in 1..Len(v.a) : Writable(v.a[i])
    [] v.k = "object" -> \A key \in DOMAIN v.f : Writable(v.f[key])
    [] OTHER -> TRUE

BlockHeaders ==
  <<"import * as THREE from 'three';\n", "// Create scene\n", "// Create camera\n",
    "// Add lights\n", "// Add objects\n", "// Create renderer\n", "// Animation loop\n">>

LightTypes == {"ambient", "directional", "point", "spot"}

IsKnownLight(light) ==
  \E t \in LightTypes : Get(light, "type") = Str(<<t>>)

C8_OrderAndIndex ==
  scene.st = "ok" =>
    LET text == scene.v
        at(h) == NthPos(text, BlockHeaders[h], 1)
        n == Len(InputObjects)
        g(i) == NthPos(text, "const geometry", i)
        m(i) == NthPos(text, "const material", i)
        mesh(i) == NthPos(text, "const mesh", i)
        blocks == LightBlocksOf(text)
    IN /\ \A h \in 1..Len(BlockHeaders) : Count(text, BlockHeaders[h]) = 1
       /\ at(1) = 1
       /\ \A h \in 1..(Len(BlockHeaders) - 1) : at(h) < at(h + 1)
       /\ Count(text, "const geometry") = n
       /\ Count(text, "const material") = n
       /\ Count(text, "const mesh") = n
       /\ \A i \in 1..n :
            LET idx == ToString(i - 1) IN
            /\ at(5) < g(i) /\ g(i) < m(i) /\ m(i) < mesh(i) /\ mesh(i) < at(6)
            /\ i < n => mesh(i) < g(i + 1)
            /\ text[g(i) + 1] = idx
            /\ text[m(i) + 1] = idx
            /\ OccursAt(text, <<"const mesh", idx, " = new THREE.Mesh(geometry", idx,
                                ", material", idx, ");\n">>, mesh(i))
       /\ Len(blocks) = (IF InputLights = <<>> THEN 1 ELSE Len(InputLights))
       /\ \A i \in 1..Len(InputLights) :
            IsKnownLight(InputLights[i]) =>
              OccursAt(blocks[i], <<"const ">> \o Get(InputLights[i], "type").s
                                  \o <<"Light", ToString(i - 1), " = new THREE.">>, 1)

\* A scene of two objects and two lights whose first light has an unknown
\* type and whose second has a known one.
C8_Witness ==
  /\ scene.st = "ok"
  /\ Len(InputObjects) = 2
  /\ Len(InputLights) = 2
  /\ ~IsKnownLight(InputLights[1])
  /\ IsKnownLight(InputLights[2])

(***************************************************************************)
(* C9.  For a light as LightConfig declares it (position absent or an      *)
(* array): an ambient light's block constructs the light from color and    *)
(* intensity and adds it to the scene, with no position statement, with or *)
(* without a position; a directional, point or spot light's block holds    *)
(* exactly one position statement, which uses the explicit position if     *)
(* present and else the fallback of the type ([5,10,7.5], [0,5,0],         *)
(* [0,10,0]); a light of any other type gives a block of length zero.      *)
(***************************************************************************)
WellTypedPosition(light) ==
  Has(light, "position") => light.f["position"].k = "array"

LightFallback(t) ==
  CASE t = "directional" -> <<"5", ", ", "10", ", ", "7.5">>
    [] t = "point" -> <<"0", ", ", "5", ", ", "0">>
    [] t = "spot" -> <<"0", ", ", "10", ", ", "0">>

LightCtor(t) ==
  CASE t = "ambient" -> "AmbientLight"
    [] t = "directional" -> "DirectionalLight"
    [] t = "point" -> "PointLight"
    [] t = "spot" -> "SpotLight"

C9_LightBlock(light, index, block) ==
  IF ~IsKnownLight(light) THEN block = <<>>
  ELSE LET t == Get(light, "type").s[1]
           name == <<t, "Light", ToString(index)>>
           head == <<"const ">> \o name \o <<" = new THREE.", LightCtor(t), "('">>
                   \o ToStr(Get(light, "color")) \o <<"', ">>
                   \o ToStr(Get(light, "intensity")) \o <<");\n">>
           tail == <<"scene.add(">> \o name \o <<");">>
       IN /\ OccursAt(block, head, 1)
          /\ OccursAt(block, tail, Len(block) - Len(tail) + 1)
          /\ IF t = "ambient"
               THEN /\ Count(block, ".position.set(") = 0
                    /\ block = head \o tail
               ELSE /\ Count(block, ".position.set(") = 1
                    /\ After(block, ".position.set(", ");\n")
                         = (IF Has(light, "position")
                            THEN Join(light.f["position"].a, <<", ">>)
                            ELSE LightFallback(t))
                    /\ block = head \o name \o <<".position.set(">>
                               \o After(block, ".position.set(", ");\n") \o <<");\n">> \o tail

C9_PerLight ==
  scene.st = "ok" =>
    \A i \in 1..Len(InputLights) :
      (~IsNullish(InputLights[i]) /\ WellTypedPosition(InputLights[i]))
        => C9_LightBlock(InputLights[i], i - 1, LightBlocksOf(scene.v)[i])

\* A scene with an ambient light that carries a position, next to a
\* positioned light without one; and scenes with an explicit position and
\* with an unknown type are reached too (C8_Witness, LightTexts).
C9_Witness ==
  /\ scene.st = "ok"
  /\ \E i, j \in 1..Len(InputLights) :
       /\ Get(InputLights[i], "type") = Str(<<"ambient">>)
       /\ Has(InputLights[i], "position")
       /\ Get(InputLights[j], "type") = Str(<<"spot">>)
       /\ ~Has(InputLights[j], "position")

(***************************************************************************)
(* C10.  The document of generateHTML holds exactly one embedded program   *)
(* body, a module script holding the generateScene output, which comes     *)
(* after the import map and is followed by no other script; no string of   *)
(* the description or the title adds, closes or splits a script block.     *)
(***************************************************************************)
C10_OneProgramBody ==
  html.st = "ok" =>
    LET blocks == ScriptBlocks(html.v) IN
      /\ Len(blocks) = 2
      /\ blocks[1].open = "<script type=\"importmap\">" /\ blocks[1].closed
      /\ blocks[2].open = "<script type=\"module\">" /\ blocks[2].closed
      /\ blocks[2].body = <<"\n">> \o generateScene(parsed.v).v \o <<"\n  ">>
      /\ Count(html.v, "</script>") = 2

(***************************************************************************)
(* C11.  Normalization leaves lights alone and keeps the order of both     *)
(* sequences: in the description parse returns, lights is the input's      *)
(* lights (same length, same order, every light with exactly its own       *)
(* fields, no position added), and objects has the input's length and      *)
(* order, the i-th object being derived from the i-th input object: it     *)
(* keeps every field the input object wrote other than material, and its   *)
(* material keeps every field the input material wrote.                    *)
(***************************************************************************)
\* Whether out carries every own property of in, except those named in skip.
KeepsFields(in, out, skip) ==
  \A key \in (DOMAIN Props(in)) \ skip : Has(out, key) /\ out.f[key] = in.f[key]

C11_LightsAndOrderKept ==
  parsed.st = "ok" =>
    LET lights == Get(parsed.v, "lights")
        objects == Get(parsed.v, "objects")
    IN /\ lights = Arr(InputLights)
       /\ objects.k = "array"
       /\ Len(objects.a) = Len(InputObjects)
       /\ \A i \in 1..Len(InputObjects) :
            /\ KeepsFields(InputObjects[i], objects.a[i], {"material"})
            /\ KeepsFields(Get(InputObjects[i], "material"),
                           Get(objects.a[i], "material"), {})
            /\ DOMAIN Props(objects.a[i])
                 = (DOMAIN Props(InputObjects[i])) \cup {"rotation", "scale", "material"}

\* A returned description of two different objects and of two different
\* lights, one of them a positioned kind written without a position.
C11_Witness ==
  /\ parsed.st = "ok"
  /\ Len(InputObjects) = 2
  /\ Get(InputObjects[1], "type") # Get(InputObjects[2], "type")
  /\ Len(InputLights) = 2
  /\ InputLights[1] # InputLights[2]
  /\ \E i \in 1..2 :
       /\ Get(InputLights[i], "type") = Str(<<"directional">>)
       /\ ~Has(InputLights[i], "position")

(***************************************************************************)
(* C12.  Geometry selection: the geometry emitted for each object uses the *)
(* object's own parameter wherever the object writes one and the default   *)
(* only where the parameter is absent (cube 1, 1, 1; sphere radius 1 and   *)
(* segments 32, the segments used twice; plane 10, 10; cylinder radius 1   *)
(* used twice, height 2; cone radius 1, height 2; torus radius 1); a       *)
(* torus of radius r has the minor radius 0.4 * r; an object of any other  *)
(* type gets BoxGeometry(1, 1, 1).                                         *)
(***************************************************************************)
RECURSIVE Flat(_)
\* The atoms of a text, run together.
Flat(text) == IF text = <<>> THEN "" ELSE Head(text) \o Flat(Tail(text))

\* The right-hand side of the statement of a scene text that declares
\* geometry{i} (n = i + 1).
GeometryExpression(text, n) ==
  LET from == NthPos(text, "const geometry", n)
  IN SubSeq(text, from + 3, NextPos(text, ";\n", from) - 1)

\* The object's own parameter where it writes one, else the default (in tenths).
OwnOrDefault(obj, key, default) ==
  IF Has(obj, key) THEN Get(obj, key) ELSE Num(default)

\* 0.4 * r of a number r, printed.
PointFourTimes(r) == IF r.fin THEN DecStr(4 * r.n, 100) ELSE "Infinity"

\* Whether the object writes only numbers for its geometry parameters.
NumericParameters(obj) ==
  \A key \in {"width", "height", "depth", "radius", "segments"} :
    Has(obj, key) => Get(obj, key).k = "number"

ExpectedGeometry(obj) ==
  LET type == Get(obj, "type")
      own(key, default) == Flat(ToStr(OwnOrDefault(obj, key, default)))
  IN CASE type = Str(<<"cube">>) ->
            "new THREE.BoxGeometry(" \o own("width", 10) \o ", " \o own("height", 10)
            \o ", " \o own("depth", 10) \o ")"
       [] type = Str(<<"sphere">>) ->
            "new THREE.SphereGeometry(" \o own("radius", 10) \o ", "
            \o own("segments", 320) \o ", " \o own("segments", 320) \o ")"
       [] type = Str(<<"plane">>) ->
            "new THREE.PlaneGeometry(" \o own("width", 100) \o ", "
            \o own("height", 100) \o ")"
       [] type = Str(<<"cylinder">>) ->
            "new THREE.CylinderGeometry(" \o own("radius", 10) \o ", "
            \o own("radius", 10) \o ", " \o own("height", 20) \o ", 32)"
       [] type = Str(<<"cone">>) ->
            "new THREE.ConeGeometry(" \o own("radius", 10) \o ", "
            \o own("height", 20) \o ", 32)"
       [] type = Str(<<"torus">>) ->
            "new THREE.TorusGeometry(" \o own("radius", 10) \o ", "
            \o PointFourTimes(OwnOrDefault(obj, "radius", 10)) \o ", 16, 100)"
       [] OTHER -> "new THREE.BoxGeometry(1, 1, 1)"

C12_GeometrySelection ==
  scene.st = "ok" =>
    \A i \in 1..Len(InputObjects) :
      NumericParameters(InputObjects[i]) =>
        Flat(GeometryExpression(scene.v, i)) = ExpectedGeometry(InputObjects[i])

====
